---- MODULE Spec2Model ----
(***************************************************************************)
(* A model of splink/blocking.py: the BlockingRule class, the where        *)
(* condition of each link type, and the statement loop of                  *)
(* block_using_rules_sql.  A SQL statement is modelled by the rows it      *)
(* returns over a small dataset; predicate text is a sequence of tokens    *)
(* that is parsed with SQL's precedence (AND binds tighter than OR) and    *)
(* evaluated in three-valued logic.                                        *)
(***************************************************************************)
EXTENDS Integers, Sequences, FiniteSets, TLC

\* ------------------------------------------------------------- bounds
\* Longest list of blocking rules in the settings.
MaxRules == 2
\* Largest salting_partitions of a rule.
MaxSalt == 2
\* Number of calls of block_using_rules_sql on the same rule objects.
MaxPasses == 2
\* __splink_salt is a random number in [0, 1): here s / SaltDen, s in 0..SaltDen-1.
SaltDen == 4

\* Python's None, and SQL's NULL for a scalar column.
None == "None"
NULL == 0

\* ------------------------------------------------------ predicate text
\* One token of SQL text.  kind "atom": a comparison; "or" / "and": the
\* keywords; "salt": ceiling(l.__splink_salt * n) = k; "uid": a cache uid.
Tok(kind, name, n, k) == [kind |-> kind, name |-> name, n |-> n, k |-> k]
Atom(name) == Tok("atom", name, 0, 0)
OrTok == Tok("or", "", 0, 0)
AndTok == Tok("and", "", 0, 0)
SaltTok(n, k) == Tok("salt", "", n, k)
UidTok(u) == Tok("uid", u, 0, 0)

\* "l.a = r.a"
TextA == <<Atom("a")>>
\* "l.a = r.a or l.b = r.b"
TextAorB == <<Atom("a"), OrTok, Atom("b")>>
\* "l.arr = r.arr"
TextArr == <<Atom("arr")>>
\* "1=1"
TextTrue == <<Atom("1=1")>>
Texts == {TextA, TextAorB, TextArr}

\* Three-valued logic: "T", "F", "U" (unknown).
And3(vals) == IF "F" \in vals THEN "F" ELSE IF "U" \in vals THEN "U" ELSE "T"
Or3(vals) == IF "T" \in vals THEN "T" ELSE IF "U" \in vals THEN "U" ELSE "F"
Not3(v) == IF v = "T" THEN "F" ELSE IF v = "F" THEN "T" ELSE "U"
Eq3(x, y) == IF x = NULL \/ y = NULL THEN "U" ELSE IF x = y THEN "T" ELSE "F"
Bool3(b) == IF b THEN "T" ELSE "F"

\* ceiling(s / SaltDen * n) for the salt s / SaltDen.
Ceiling(s, n) == (s * n + SaltDen - 1) \div SaltDen

\* The value of one comparison on the row pair (l, r).
EvalAtom(tok, l, r) ==
    IF tok.kind = "salt" THEN Bool3(Ceiling(l.salt, tok.n) = tok.k)
    ELSE IF tok.name = "a" THEN Eq3(l.a, r.a)
    ELSE IF tok.name = "b" THEN Eq3(l.b, r.b)
    ELSE IF tok.name = "arr" THEN Eq3(l.arr, r.arr)
    ELSE Bool3(tok.name = "1=1")

\* The pieces of text between the top-level tokens of one kind.
RECURSIVE SplitOn(_, _)
SplitOn(text, kind) ==
    IF \A i \in 1..Len(text) : text[i].kind # kind THEN <<text>>
    ELSE LET i == CHOOSE i \in 1..Len(text) :
                    /\ text[i].kind = kind
                    /\ \A j \in 1..(i - 1) : text[j].kind # kind
         IN <<SubSeq(text, 1, i - 1)>> \o SplitOn(SubSeq(text, i + 1, Len(text)), kind)

\* A conjunction "x and y and ...".
EvalAnd(text, l, r) ==
    LET parts == SplitOn(text, "and")
    IN And3({EvalAtom(parts[i][1], l, r) : i \in 1..Len(parts)})

\* The engine's value of predicate text: a disjunction of conjunctions.
EvalText(text, l, r) ==
    LET parts == SplitOn(text, "or")
    IN Or3({EvalAnd(parts[i], l, r) : i \in 1..Len(parts)})

\* ------------------------------------------------------- BlockingRule
BlockingRule(blocking_rule, salting_partitions, sqlglot_dialect, arrays_to_explode) ==
    [blocking_rule |-> blocking_rule,
     salting_partitions |-> salting_partitions,
     sqlglot_dialect |-> sqlglot_dialect,
     arrays_to_explode |-> arrays_to_explode]

\* The property sql_dialect: _sql_dialect is set only for a truthy dialect.
sql_dialect(br) == IF br.sqlglot_dialect \in {None, ""} THEN None ELSE br.sqlglot_dialect

\* A generator that runs one partition too far.
salted_blocking_rules_one_more(br) ==
    IF br.salting_partitions = 1 THEN <<br.blocking_rule>>
    ELSE [n \in 1..(br.salting_partitions + 1) |->
             br.blocking_rule \o <<AndTok, SaltTok(br.salting_partitions, n)>>]

\* The generator salted_blocking_rules, as the sequence it yields.
salted_blocking_rules(br) ==
    IF br.salting_partitions = 1 THEN <<br.blocking_rule>>
    ELSE [n \in 1..br.salting_partitions |->
             br.blocking_rule \o <<AndTok, SaltTok(br.salting_partitions, n)>>]

\* Lines 104-108 join the clauses of preceding_rules: rule i of the ordered
\* list has the rules before it as preceding_rules (add_preceding_rules).
preceding_rules(i) == 1..(i - 1)
match_key(i) == Cardinality(preceding_rules(i))

\* The raw predicate, its unknown left unguarded.
CoalesceMissing(v) == v

\* coalesce(x, false).
Coalesce(v) == IF v = "U" THEN "F" ELSE v

\* The clause reading only ids_to_compare[0].
exclude_first_handle_only(br, ids) ==
    IF ids # <<>>
    THEN [kind |-> "exists", text |-> <<>>, tables |-> <<ids[1]>>]
    ELSE [kind |-> "coalesce", text |-> br.blocking_rule, tables |-> <<>>]

\* The clause a rule contributes to the rules after it: an EXISTS over its
\* materialized id-pair tables when it has any, else its guarded predicate.
exclude_from_following_rules_sql(br, ids) ==
    IF ids # <<>>
    THEN [kind |-> "exists", text |-> <<>>, tables |-> ids]
    ELSE [kind |-> "coalesce", text |-> br.blocking_rule, tables |-> <<>>]

\* "AND NOT (c1 OR c2 ...)" as the sequence of its clauses; "" is <<>>.
and_not_preceding_rules_sql(i, rules, caches) ==
    [j \in preceding_rules(i) |-> exclude_from_following_rules_sql(rules[j], caches[j])]

EvalExclude(clause, l, r) ==
    IF clause.kind = "exists"
    THEN Bool3(\E t \in 1..Len(clause.tables) : <<l.uid, r.uid>> \in clause.tables[t].pairs)
    ELSE Coalesce(EvalText(clause.text, l, r))

EvalAndNot(clauses, l, r) ==
    IF clauses = <<>> THEN "T"
    ELSE Not3(Or3({EvalExclude(clauses[j], l, r) : j \in 1..Len(clauses)}))

\* ------------------------------------------------------------ the data
\* Three records.  a is NULL on the third; arr is an array column.
ColA == <<1, 1, NULL>>
ColB == <<1, 2, 2>>
ColArr == <<{1}, {1, 2}, {2}>>
\* The salts of the three records: none is 0, or the first is 0.
SaltProfiles == {<<1, SaltDen - 1, 2>>, <<0, SaltDen - 1, 2>>}

\* The number of input datasets of a run.
NumSources(lk) ==
    IF lk.link_type = "dedupe_only" THEN 1
    ELSE IF lk.link_type = "link_only" /\ ~lk.two_dataset_link_only THEN 3
    ELSE 2

\* source_dataset and unique_id of the three records: unique_id is unique
\* within a dataset, not across datasets.
ColSd(lk) ==
    IF NumSources(lk) = 1 THEN <<1, 1, 1>>
    ELSE IF NumSources(lk) = 2 THEN <<1, 2, 2>> ELSE <<1, 2, 3>>
ColUid(lk) == IF NumSources(lk) = 1 THEN <<1, 2, 3>> ELSE <<1, 1, 2>>

Rec(lk, i) ==
    [idx |-> i, sd |-> ColSd(lk)[i], uid |-> ColUid(lk)[i], a |-> ColA[i],
     b |-> ColB[i], arr |-> ColArr[i], salt |-> lk.salts[i]]

\* __splink__df_concat_with_tf
Concat(lk) == {Rec(lk, i) : i \in 1..3}

\* The left and right input relations: the halves built at the end of
\* block_using_rules_sql for a two-dataset link, else the whole table.
InputL(lk) ==
    IF lk.two_dataset_link_only /\ ~lk.self_link_mode
    THEN {x \in Concat(lk) : x.sd = 1} ELSE Concat(lk)
InputR(lk) ==
    IF lk.two_dataset_link_only /\ ~lk.self_link_mode
    THEN {x \in Concat(lk) : x.sd = 2} ELSE Concat(lk)

\* __splink__df_concat_with_tf_unnested: one row per element of arr.
Unnested(lk) == UNION {{[x EXCEPT !.arr = e] : e \in x.arr} : x \in Concat(lk)}

\* The composite unique id (source dataset, then unique id) compared with <.
IdLess(l, r) == l.sd < r.sd \/ (l.sd = r.sd /\ l.uid < r.uid)

\* ------------------------------------------------------ where condition
sql_gen_where_condition(lt) ==
    IF lt \in {"two_dataset_link_only", "self_link"} THEN <<"1=1">>
    ELSE IF lt \in {"link_and_dedupe", "dedupe_only"} THEN <<"id_lt">>
    ELSE <<"id_lt", "sd_ne">>

EvalWhereTerm(term, l, r) ==
    IF term = "id_lt" THEN IdLess(l, r)
    ELSE IF term = "sd_ne" THEN l.sd # r.sd
    ELSE IF term = "sd_lt" THEN l.sd < r.sd
    ELSE TRUE

EvalWhere(where, l, r) == \A i \in 1..Len(where) : EvalWhereTerm(where[i], l, r)

\* The rows of "l inner join r on (on) where ... AND NOT (...)".
JoinRows(L, R, on, where, clauses) ==
    {p \in L \X R :
        /\ EvalText(on, p[1], p[2]) = "T"
        /\ EvalWhere(where, p[1], p[2])
        /\ EvalAndNot(clauses, p[1], p[2]) = "T"}

\* ---------------------------------------------------------- the state
VARIABLES
    linker,           \* the run context: link type, flags, backend, data
    settings,         \* _blocking_rule_for_training, _blocking_rules_to_generate_predictions
    pass,             \* calls of block_using_rules_sql so far
    cache_uid,        \* linker._cache_uid of the current call
    pc,               \* "idle", "loop" (inside the for loops), "done"
    link_type,        \* the local link_type
    where_condition,  \* the local where_condition
    blocking_rules,   \* the local blocking_rules
    bi,               \* position of br in blocking_rules
    variants,         \* what salted_blocking_rules has still to yield for br
    ids_to_compare,   \* br.ids_to_compare of every rule
    sqls,             \* the local sqls
    appends,          \* appends to each rule's ids_to_compare in this call
    materialized,     \* every id-pair table enqueued and executed so far
    ser_pc, ser_rule, ser_form, ser_obj   \* a rule, its serialized form, the rule read back

vars == <<linker, settings, pass, cache_uid, pc, link_type, where_condition,
          blocking_rules, bi, variants, ids_to_compare, sqls, appends,
          materialized, ser_pc, ser_rule, ser_form, ser_obj>>

runVars == <<linker, settings, pass, cache_uid, pc, link_type, where_condition,
             blocking_rules, bi, variants, ids_to_compare, sqls, appends, materialized>>
serVars == <<ser_pc, ser_rule, ser_form, ser_obj>>

\* ---------------------------------------------------------- the inputs
SqlArrays(text) == IF text = TextArr THEN <<"arr">> ELSE <<>>

\* The rules a settings object may hold.  training is <<>> for None, else
\* the one rule.
RulePool ==
    {BlockingRule(t, n, None, SqlArrays(t)) : t \in Texts, n \in {1, MaxSalt}}

RuleLists(maxLen) == UNION {[1..n -> RulePool] : n \in 0..maxLen}

SettingsChoices ==
    {[training |-> <<>>, predictions |-> rs] : rs \in RuleLists(MaxRules)}
    \cup {[training |-> <<>>, predictions |-> <<BlockingRule(TextTrue, 1, None, <<>>)>>]}
    \cup {[training |-> <<t>>, predictions |-> rs] : t \in RulePool, rs \in RuleLists(1)}

LinkModes ==
    {[link_type |-> "dedupe_only", two_dataset_link_only |-> FALSE, self_link_mode |-> FALSE],
     [link_type |-> "link_and_dedupe", two_dataset_link_only |-> FALSE, self_link_mode |-> FALSE],
     [link_type |-> "link_only", two_dataset_link_only |-> FALSE, self_link_mode |-> FALSE],
     [link_type |-> "link_only", two_dataset_link_only |-> TRUE, self_link_mode |-> FALSE],
     [link_type |-> "dedupe_only", two_dataset_link_only |-> FALSE, self_link_mode |-> TRUE]}

\* A backend without salting never reads __splink_salt.
Backends ==
    {[spark |-> FALSE, salts |-> CHOOSE sp \in SaltProfiles : sp[1] # 0]}
    \cup {[spark |-> TRUE, salts |-> sp] : sp \in SaltProfiles}

Linkers ==
    {[link_type |-> m.link_type, two_dataset_link_only |-> m.two_dataset_link_only,
      self_link_mode |-> m.self_link_mode, spark |-> b.spark, salts |-> b.salts] :
        m \in LinkModes, b \in Backends}

CacheUids == {<<UidTok("u1")>>, <<UidTok("u2")>>}
\* The uid of a call: the first call's is named u1; a later call has any.
UidsOfCall(n) == IF n = 1 THEN {<<UidTok("u1")>>} ELSE CacheUids

\* ------------------------------------------------- block_using_rules_sql
\* type(linker).__name__ in ["SparkLinker"]
apply_salt == linker.spark

ResolveLinkType(lk) ==
    IF lk.self_link_mode THEN "self_link"
    ELSE IF lk.two_dataset_link_only THEN "two_dataset_link_only"
    ELSE lk.link_type

\* The rules of a call without the fallback to 1=1.
ResolveRulesNoDefault(st) ==
    IF st.training # <<>> THEN st.training ELSE st.predictions

\* The rules of a call: the training rule alone, else the prediction rules,
\* else the rule 1=1.
ResolveRules(st) ==
    LET chosen == IF st.training # <<>> THEN st.training ELSE st.predictions
    IN IF chosen = <<>> THEN <<BlockingRule(TextTrue, 1, None, <<>>)>> ELSE chosen

SaltedVariants(br) ==
    IF apply_salt THEN salted_blocking_rules(br) ELSE <<br.blocking_rule>>

\* hashlib.sha256(...).hexdigest()[:9], taken as injective.
Hash(s) == s

\* A name whose hash leaves out the cache uid.
TableNameTextOnly(key, salted_br, uid) ==
    [match_key |-> key,
     salt_id |-> IF apply_salt THEN Hash(salted_br) ELSE <<>>]

\* The output name of the id-pair table: the match key, then salt_id.
TableName(key, salted_br, uid) ==
    [match_key |-> key,
     salt_id |-> IF apply_salt THEN Hash(salted_br \o uid) ELSE <<>>]

\* br.ids_to_compare.append(ids_to_compare)
AppendHandle(ids, h) == Append(ids, h)

\* The final rows of the array path: pairs left join l, left join r on the
\* unique id; idx 0 is the all-NULL row of an unmatched left join.
Rejoin(pairs, L, R) ==
    UNION {LET ls == {x.idx : x \in {y \in L : y.uid = p[1]}}
               rs == {x.idx : x \in {y \in R : y.uid = p[2]}}
           IN (IF ls = {} THEN {0} ELSE ls) \X (IF rs = {} THEN {0} ELSE rs) : p \in pairs}

Idx(rows) == {<<p[1].idx, p[2].idx>> : p \in rows}

\* Before the first call: every rule is newly constructed.
RunIdle ==
    /\ pass = 0
    /\ cache_uid = <<>>
    /\ pc = "idle"
    /\ link_type = None
    /\ where_condition = <<>>
    /\ blocking_rules = <<>>
    /\ bi = 0
    /\ variants = <<>>
    /\ ids_to_compare = [i \in 1..Len(ResolveRules(settings)) |-> <<>>]
    /\ sqls = <<>>
    /\ appends = [i \in 1..Len(ResolveRules(settings)) |-> 0]
    /\ materialized = {}

Init ==
    /\ linker \in Linkers
    /\ settings \in SettingsChoices
    /\ RunIdle
    /\ ser_pc = "off" /\ ser_rule = <<>> /\ ser_form = <<>> /\ ser_obj = <<>>

\* Lines 236-287: the call up to the loop.
Start ==
    /\ pc \in {"idle", "done"}
    /\ pass < MaxPasses
    /\ pass' = pass + 1
    /\ cache_uid' \in UidsOfCall(pass + 1)
    /\ link_type' = ResolveLinkType(linker)
    /\ where_condition' = sql_gen_where_condition(link_type')
    /\ blocking_rules' = ResolveRules(settings)
    /\ sqls' = <<>>
    /\ bi' = 1
    /\ variants' = IF blocking_rules' = <<>> THEN <<>>
                    ELSE SaltedVariants(blocking_rules'[1])
    /\ appends' = [i \in DOMAIN appends |-> 0]
    /\ pc' = "loop"
    /\ UNCHANGED <<linker, settings, ids_to_compare, materialized, serVars>>

\* The for loops move on: the next variant, else the next rule.
Advance ==
    IF Tail(variants) # <<>>
    THEN bi' = bi /\ variants' = Tail(variants)
    ELSE /\ bi' = bi + 1
         /\ variants' = IF bi + 1 <= Len(blocking_rules)
                         THEN SaltedVariants(blocking_rules[bi + 1]) ELSE <<>>

\* Lines 298-310 and 357: one statement of a rule without arrays.
BlockDirect ==
    /\ pc = "loop" /\ variants # <<>>
    /\ blocking_rules[bi].arrays_to_explode = <<>>
    /\ LET salted_br == Head(variants)
           clauses == and_not_preceding_rules_sql(bi, blocking_rules, ids_to_compare)
       IN sqls' = Append(sqls,
              [rule |-> bi, match_key |-> match_key(bi), on |-> salted_br,
               where |-> where_condition, excl |-> clauses, path |-> "direct",
               pairs |-> {},
               rows |-> Idx(JoinRows(InputL(linker), InputR(linker), salted_br,
                                     where_condition, clauses))])
    /\ Advance
    /\ UNCHANGED <<linker, settings, pass, cache_uid, pc, link_type, where_condition,
                   blocking_rules, ids_to_compare, appends, materialized, serVars>>

\* Lines 311-357: one statement of a rule with arrays to explode.
BlockExplode ==
    /\ pc = "loop" /\ variants # <<>>
    /\ blocking_rules[bi].arrays_to_explode # <<>>
    /\ where_condition' =
           IF link_type = "two_dataset_link_only"
           THEN where_condition \o <<"sd_lt">> ELSE where_condition
    /\ LET salted_br == Head(variants)
           clauses == and_not_preceding_rules_sql(bi, blocking_rules, ids_to_compare)
           name == TableName(match_key(bi), salted_br, cache_uid)
           found == JoinRows(Unnested(linker), Unnested(linker), salted_br,
                             where_condition', clauses)
           handle == [name |-> name, pass |-> pass,
                      pairs |-> {<<p[1].uid, p[2].uid>> : p \in found}]
       IN /\ ids_to_compare' =
                 [ids_to_compare EXCEPT ![bi] = AppendHandle(@, handle)]
          /\ appends' = [appends EXCEPT
                            ![bi] = @ + Len(ids_to_compare'[bi]) - Len(ids_to_compare[bi])]
          /\ materialized' = materialized \cup
                 {[name |-> name, text |-> salted_br, uid |-> cache_uid,
                   pass |-> pass, salted |-> apply_salt]}
          /\ sqls' = Append(sqls,
                 [rule |-> bi, match_key |-> match_key(bi), on |-> salted_br,
                  where |-> where_condition', excl |-> clauses, path |-> "explode",
                  pairs |-> handle.pairs,
                  rows |-> Rejoin(handle.pairs, InputL(linker), InputR(linker))])
    /\ Advance
    /\ UNCHANGED <<linker, settings, pass, cache_uid, pc, link_type, blocking_rules,
                   serVars>>

\* Lines 359-390: the loop is over; the statements are joined by union all.
Finish ==
    /\ pc = "loop" /\ variants = <<>>
    /\ pc' = "done"
    /\ UNCHANGED <<linker, settings, pass, cache_uid, link_type, where_condition,
                   blocking_rules, bi, variants, ids_to_compare, sqls, appends,
                   materialized, serVars>>

Next == Start \/ BlockDirect \/ BlockExplode \/ Finish

Spec == Init /\ [][Next]_vars

\* ------------------------------------------------------- serialization
\* A serialized rule: a bare string, a dict with the keys it holds, or a
\* BlockingRule passed as it is.  A key that is absent holds no value.
Form(kind, keys, br) ==
    [kind |-> kind, keys |-> keys,
     blocking_rule |-> IF kind = "dict" /\ "blocking_rule" \notin keys
                       THEN <<>> ELSE br.blocking_rule,
     sql_dialect |-> IF kind = "obj" THEN br.sqlglot_dialect
                     ELSE IF "sql_dialect" \in keys THEN sql_dialect(br) ELSE None,
     salting_partitions |-> IF kind = "obj" \/ "salting_partitions" \in keys
                            THEN br.salting_partitions ELSE 1,
     arrays_to_explode |-> IF kind = "obj" \/ "arrays_to_explode" \in keys
                           THEN br.arrays_to_explode ELSE <<>>]

as_dict(br) ==
    Form("dict",
         {"blocking_rule", "sql_dialect"}
           \cup (IF br.salting_partitions > 1 /\ sql_dialect(br) = "spark"
                 THEN {"salting_partitions"} ELSE {})
           \cup (IF br.arrays_to_explode # <<>> THEN {"arrays_to_explode"} ELSE {}),
         br)

as_completed_dict(br) ==
    IF ~(br.salting_partitions > 1) /\ sql_dialect(br) = "spark"
    THEN Form("str", {}, br)
    ELSE as_dict(br)

\* blocking_rule_to_obj; ok = FALSE is the ValueError of a dict without a
\* blocking rule.
blocking_rule_to_obj(f) ==
    IF f.kind = "obj"
    THEN [ok |-> TRUE, obj |-> BlockingRule(f.blocking_rule, f.salting_partitions,
                                            f.sql_dialect, f.arrays_to_explode)]
    ELSE IF f.kind = "dict"
    THEN IF "blocking_rule" \notin f.keys
         THEN [ok |-> FALSE, obj |-> BlockingRule(<<>>, 1, None, <<>>)]
         ELSE [ok |-> TRUE,
               obj |-> BlockingRule(
                   f.blocking_rule,
                   IF "salting_partitions" \in f.keys THEN f.salting_partitions ELSE 1,
                   IF "sql_dialect" \in f.keys THEN f.sql_dialect ELSE None,
                   IF "arrays_to_explode" \in f.keys THEN f.arrays_to_explode ELSE <<>>)]
    ELSE [ok |-> TRUE, obj |-> BlockingRule(f.blocking_rule, 1, None, <<>>)]

Dialects == {None, "", "spark", "duckdb"}

SerRules ==
    {BlockingRule(t, n, d, arr) :
        t \in Texts, n \in 1..MaxSalt, d \in Dialects, arr \in {<<>>, <<"arr">>}}

\* Dicts as a settings file may declare them, the predicate missing or not.
DeclaredKeys == {{}, {"sql_dialect"}, {"blocking_rule"}, {"blocking_rule", "salting_partitions"}}

InitSer ==
    /\ linker = CHOOSE lk \in Linkers : ~lk.spark /\ lk.link_type = "dedupe_only" /\ ~lk.self_link_mode
    /\ settings = [training |-> <<>>, predictions |-> <<>>]
    /\ RunIdle
    /\ ser_pc = "new" /\ ser_rule \in {<<br>> : br \in SerRules}
    /\ ser_form = <<>> /\ ser_obj = <<>>

SerAsDict ==
    /\ ser_pc = "new"
    /\ ser_form' = <<as_dict(ser_rule[1])>>
    /\ ser_pc' = "saved"
    /\ UNCHANGED <<ser_rule, ser_obj, runVars>>

SerAsCompletedDict ==
    /\ ser_pc = "new"
    /\ ser_form' = <<as_completed_dict(ser_rule[1])>>
    /\ ser_pc' = "saved"
    /\ UNCHANGED <<ser_rule, ser_obj, runVars>>

\* The rule itself, or a declared dict, handed to blocking_rule_to_obj.
SerDeclare ==
    /\ ser_pc = "new"
    /\ \/ ser_form' = <<Form("obj", {}, ser_rule[1])>>
       \/ \E ks \in DeclaredKeys : ser_form' = <<Form("dict", ks, ser_rule[1])>>
    /\ ser_pc' = "saved"
    /\ UNCHANGED <<ser_rule, ser_obj, runVars>>

SerLoad ==
    /\ ser_pc = "saved"
    /\ LET got == blocking_rule_to_obj(ser_form[1])
       IN /\ ser_obj' = <<got.obj>>
          /\ ser_pc' = IF got.ok THEN "loaded" ELSE "error"
    /\ UNCHANGED <<ser_rule, ser_form, runVars>>

NextSer == SerAsDict \/ SerAsCompletedDict \/ SerDeclare \/ SerLoad

SpecSer == InitSer /\ [][NextSer]_vars

\* ------------------------------------------------------------- claims
\* Whether the record pair (l, r) satisfies a rule's own predicate; for a
\* rule with arrays to explode, on some pair of their unnested rows.
Satisfies(br, l, r) ==
    IF br.arrays_to_explode = <<>> THEN EvalText(br.blocking_rule, l, r) = "T"
    ELSE \E x \in Unnested(linker), y \in Unnested(linker) :
            /\ x.idx = l.idx /\ y.idx = r.idx
            /\ EvalText(br.blocking_rule, x, y) = "T"

\* The base filter of the resolved link type.
BaseFilter(l, r) == EvalWhere(sql_gen_where_condition(link_type), l, r)

\* The statements of the union-all output that hold the pair (l, r).
StatementsWith(l, r) == {i \in 1..Len(sqls) : <<l.idx, r.idx>> \in sqls[i].rows}

RulesSatisfied(l, r) ==
    {i \in 1..Len(blocking_rules) : Satisfies(blocking_rules[i], l, r)}

Min(S) == CHOOSE x \in S : \A y \in S : x <= y

\* C1: when a call is over, every pair of the input relations that passes
\* the base filter and satisfies some rule is in exactly one statement of
\* the output, and that statement carries the match key of the first rule
\* the pair satisfies.
C1_ExactlyOnceCoverage ==
    pc = "done" =>
        \A l \in InputL(linker), r \in InputR(linker) :
            (BaseFilter(l, r) /\ RulesSatisfied(l, r) # {}) =>
                /\ Cardinality(StatementsWith(l, r)) = 1
                /\ \A i \in StatementsWith(l, r) :
                       sqls[i].match_key = match_key(Min(RulesSatisfied(l, r)))

\* The relation a rule's predicate is evaluated on.
RowsOf(br) == IF br.arrays_to_explode = <<>> THEN Concat(linker) ELSE Unnested(linker)

\* The variants of a rule that select the row pair (l, r).
VariantsSelecting(br, l, r) ==
    {k \in 1..Len(salted_blocking_rules(br)) :
        EvalText(salted_blocking_rules(br)[k], l, r) = "T"}

\* C2: a rule with salting_partitions N has N salted variants (the
\* predicate itself when N = 1); every record's salt passes exactly one of
\* the partition tests ceiling(salt * N) = k, k in 1..N; a row pair is
\* selected by some variant exactly when the unsalted predicate selects it,
\* and never by two variants.
C2_SaltingEquivalence ==
    \A i \in 1..Len(blocking_rules) :
        LET br == blocking_rules[i]
            N == br.salting_partitions
        IN /\ Len(salted_blocking_rules(br)) = N
           /\ N = 1 => salted_blocking_rules(br) = <<br.blocking_rule>>
           /\ N > 1 => \A x \in Concat(linker) :
                  Cardinality({k \in 1..N : Ceiling(x.salt, N) = k}) = 1
           /\ \A l \in RowsOf(br), r \in RowsOf(br) :
                  /\ (EvalText(br.blocking_rule, l, r) = "T") <=>
                         (VariantsSelecting(br, l, r) # {})
                  /\ Cardinality(VariantsSelecting(br, l, r)) <= 1

\* C3: under dedupe_only, link_and_dedupe and link_only every row of every
\* statement has composite id(l) < composite id(r), and under link_only the
\* two records also come from different source datasets.
C3_OrderingInvariant ==
    \A i \in 1..Len(sqls) : \A p \in sqls[i].rows :
        /\ link_type \in {"dedupe_only", "link_and_dedupe", "link_only"} =>
               /\ p[1] # 0 /\ p[2] # 0
               /\ IdLess(Rec(linker, p[1]), Rec(linker, p[2]))
        /\ link_type = "link_only" =>
               Rec(linker, p[1]).sd # Rec(linker, p[2]).sd

\* The row pairs a statement's predicate is evaluated on.
SourcePairs(s) ==
    IF s.path = "direct" THEN InputL(linker) \X InputR(linker)
    ELSE Unnested(linker) \X Unnested(linker)

\* Whether a statement emits the row pair p of its source.
Emits(s, p) ==
    IF s.path = "direct" THEN <<p[1].idx, p[2].idx>> \in s.rows
    ELSE /\ <<p[1].uid, p[2].uid>> \in s.pairs
         /\ (p[1].idx \in {x.idx : x \in InputL(linker)}
                /\ p[2].idx \in {x.idx : x \in InputR(linker)})
               => <<p[1].idx, p[2].idx>> \in s.rows

\* No clause of a statement excludes p: the predicate of each clause built
\* from a raw predicate is false or unknown on p, and no id-pair table of
\* an EXISTS clause holds p's unique ids.
NoPrecedingRuleHolds(s, p) ==
    \A j \in 1..Len(s.excl) :
        IF s.excl[j].kind = "coalesce"
        THEN EvalText(blocking_rules[j].blocking_rule, p[1], p[2]) \in {"F", "U"}
        ELSE \A t \in 1..Len(s.excl[j].tables) :
                <<p[1].uid, p[2].uid>> \notin s.excl[j].tables[t].pairs

\* C4: in every statement of a finished call, a row pair that satisfies
\* the statement's ON predicate and where condition, and on which every
\* preceding rule's predicate is false or unknown, is emitted: an unknown
\* predicate of an earlier rule does not exclude the pair.
C4_NullSafeExclusion ==
    pc = "done" =>
        \A i \in 1..Len(sqls) : \A p \in SourcePairs(sqls[i]) :
            (/\ EvalText(sqls[i].on, p[1], p[2]) = "T"
             /\ EvalWhere(sqls[i].where, p[1], p[2])
             /\ NoPrecedingRuleHolds(sqls[i], p))
                => Emits(sqls[i], p)

\* C4's case: a statement emits a pair on which an earlier rule's raw
\* predicate is unknown.
C4_Witness ==
    \E i \in 1..Len(sqls) : \E p \in SourcePairs(sqls[i]) :
        /\ pc = "done"
        /\ sqls[i].path = "direct"
        /\ Emits(sqls[i], p)
        /\ EvalText(sqls[i].on, p[1], p[2]) = "T"
        /\ EvalWhere(sqls[i].where, p[1], p[2])
        /\ \E j \in 1..Len(sqls[i].excl) :
               /\ sqls[i].excl[j].kind = "coalesce"
               /\ EvalText(sqls[i].excl[j].text, p[1], p[2]) = "U"

\* C5: every statement of a call carries the where condition of the
\* resolved link type, which restricts nothing under two_dataset_link_only
\* and self_link, and the loop leaves where_condition as it was resolved.
C5_BaseFilterByMode ==
    pc \in {"loop", "done"} =>
        /\ where_condition = sql_gen_where_condition(link_type)
        /\ \A i \in 1..Len(sqls) :
               /\ sqls[i].where = sql_gen_where_condition(link_type)
               /\ link_type \in {"two_dataset_link_only", "self_link"} =>
                      \A p \in SourcePairs(sqls[i]) : EvalWhere(sqls[i].where, p[1], p[2])

\* The rows the rule 1=1 selects under each link type.
AllPairsOf(lt) ==
    {<<p[1].idx, p[2].idx>> : p \in {q \in InputL(linker) \X InputR(linker) :
        \/ lt \in {"two_dataset_link_only", "self_link"}
        \/ lt \in {"dedupe_only", "link_and_dedupe"} /\ IdLess(q[1], q[2])
        \/ lt = "link_only" /\ IdLess(q[1], q[2]) /\ q[1].sd # q[2].sd}}

NoRulesGiven == settings.training = <<>> /\ settings.predictions = <<>>
OneEqualsOneGiven ==
    /\ settings.training = <<>>
    /\ settings.predictions = <<BlockingRule(TextTrue, 1, None, <<>>)>>

\* C6: a call with no rules and a call with the one rule 1=1 both end with
\* the same output: one statement, match key 0, no exclusion clause, the
\* where condition of the link type, and every pair that condition admits.
C6_DefaultRule ==
    (pc = "done" /\ (NoRulesGiven \/ OneEqualsOneGiven)) =>
        /\ Len(sqls) = 1
        /\ sqls[1].match_key = 0
        /\ sqls[1].on = TextTrue
        /\ sqls[1].excl = <<>>
        /\ sqls[1].path = "direct"
        /\ sqls[1].where = sql_gen_where_condition(link_type)
        /\ sqls[1].rows = AllPairsOf(link_type)

C6_Witness ==
    /\ pc = "done" /\ NoRulesGiven
    /\ link_type = "dedupe_only"
    /\ Len(sqls) = 1 /\ sqls[1].rows = {<<1, 2>>, <<1, 3>>, <<2, 3>>}

ExpectedAppends(i) ==
    IF blocking_rules[i].arrays_to_explode = <<>> THEN 0
    ELSE IF linker.spark THEN blocking_rules[i].salting_partitions ELSE 1

\* C8 as claimed: within one call a rule's ids_to_compare is appended to at
\* most once, and never for a rule without arrays to explode.
C8_AppendAtMostOnce ==
    pc \in {"loop", "done"} =>
        \A i \in 1..Len(blocking_rules) :
            /\ appends[i] <= 1
            /\ blocking_rules[i].arrays_to_explode = <<>> => appends[i] = 0

\* C8 amended: within one call a rule's ids_to_compare is appended to once
\* per salted variant (salting_partitions times when salting is applied,
\* else once), and never for a rule without arrays to explode.
C8_AppendPerVariant ==
    pc \in {"loop", "done"} =>
        \A i \in 1..Len(blocking_rules) :
            /\ appends[i] <= ExpectedAppends(i)
            /\ (pc = "done" \/ i < bi) => appends[i] = ExpectedAppends(i)
            /\ blocking_rules[i].arrays_to_explode = <<>> => appends[i] = 0

C8_Witness ==
    /\ pc = "done"
    /\ \E i \in 1..Len(blocking_rules) :
           appends[i] = blocking_rules[i].salting_partitions /\ appends[i] > 1

\* The handles of the current call among a sequence of handles.
ThisCall(tables) == {t \in 1..Len(tables) : tables[t].pass = pass}

\* C9: the exclusion clause of a statement of rule i reads the caches of
\* the rules before i and no other; for each such rule j with arrays to
\* explode it reads the whole cache, which holds one handle of this call
\* per salted variant of j, and these hold every id pair rule j emitted.
C9_ReadAfterWrite ==
    \A i \in 1..Len(sqls) :
        /\ DOMAIN sqls[i].excl = 1..(sqls[i].rule - 1)
        /\ \A j \in 1..(sqls[i].rule - 1) :
               blocking_rules[j].arrays_to_explode # <<>> =>
                   LET tables == sqls[i].excl[j].tables
                   IN /\ sqls[i].excl[j].kind = "exists"
                      /\ tables = ids_to_compare[j]
                      /\ Cardinality(ThisCall(tables)) = ExpectedAppends(j)
                      /\ UNION {tables[t].pairs : t \in ThisCall(tables)}
                            = UNION {sqls[k].pairs : k \in {n \in 1..Len(sqls) : sqls[n].rule = j}}

C9_Witness ==
    \E i \in 1..Len(sqls) :
        /\ sqls[i].rule = 2
        /\ blocking_rules[1].arrays_to_explode # <<>>
        /\ Len(sqls[i].excl[1].tables) >= 2
        /\ Cardinality(ThisCall(sqls[i].excl[1].tables)) = 2
        /\ sqls[i].excl[1].tables[1].pairs # sqls[i].excl[1].tables[2].pairs

\* C10: a rule read back from as_dict() or _as_completed_dict() has the
\* predicate, the sql dialect and the arrays_to_explode it had, and under
\* the spark dialect its salting_partitions; the serialized form is a bare
\* string only when every field but the predicate has its default.
C10_RoundTrip ==
    (ser_pc = "loaded" /\ ser_form[1] \in {as_dict(ser_rule[1]), as_completed_dict(ser_rule[1])}) =>
        /\ ser_obj[1].blocking_rule = ser_rule[1].blocking_rule
        /\ sql_dialect(ser_obj[1]) = sql_dialect(ser_rule[1])
        /\ ser_obj[1].arrays_to_explode = ser_rule[1].arrays_to_explode
        /\ sql_dialect(ser_rule[1]) = "spark" =>
               ser_obj[1].salting_partitions = ser_rule[1].salting_partitions
        /\ ser_form[1].kind = "str" =>
               /\ ser_rule[1].salting_partitions = 1
               /\ sql_dialect(ser_rule[1]) = None
               /\ ser_rule[1].arrays_to_explode = <<>>
====
